---- MODULE Spec2Model ----
(***************************************************************************)
(* A model of the token refresher of backoff.go: the refresher goroutine   *)
(* (refresher, refresh, refreshInner), the callers of GetToken, Refresh    *)
(* and Close, the RWMutex guarding the token, the refresh timer and the    *)
(* backoff tickers.                                                        *)
(*                                                                         *)
(* Time is abstract: a duration is a number of seconds, and a tick of a    *)
(* backoff ticker or the firing of the timer is a step that may happen at  *)
(* any moment the code allows.  The Retriever is the environment: every    *)
(* call succeeds with a fresh non-empty token, fails with the zero values  *)
(* ("", 0, err) as the mockRetriever of the tests does, or panics.         *)
(***************************************************************************)
EXTENDS Integers, Sequences, FiniteSets, TLC

\* ---------------------------------------------------------------- bounds
\* The Retriever succeeds at most MaxFetch times (it fails from then on).
MaxFetch == 2
\* The Retriever panics at most MaxPanics times.
MaxPanics == 1
\* The per-refresh counters of Retriever calls saturate at MaxCount.
MaxCount == 3

\* ------------------------------------------------------ program constants
\* time.Second, the margin subtracted from refreshBuffer for MaxElapsedTime.
Margin == 1

\* The goroutines that call GetToken.  They meet only in the read side of the
\* RWMutex, which admits them independently of each other, so one caller,
\* calling again and again, stands for them.
Readers == {"g1"}
\* Values of refreshBuffer given to NewTokenRefresher (seconds): below the
\* margin, equal to it, above it.
RefreshBuffers == {0, 1, 3}
\* Values of expiresIn a successful Retriever call reports (seconds).
Validities == {2, 4}

\* The empty token, the tokens of the successive successful fetches, and a
\* value that is neither: what a read racing with an unlocked write of the
\* two-word string may yield.
Empty == ""
TokenNames == <<"tok1", "tok2", "tok3", "tok4", "tok5", "tok6">>
Torn == "torn"
Tok(n) == IF n = 0 THEN Empty ELSE TokenNames[n]
Tokens == {Tok(n) : n \in 0..MaxFetch} \cup {Torn}

\* The errors refresh and refreshInner deal in.
Nil == "nil"
RetrieverErr == "retrieverErr"
ErrShutdown == "ErrShutdown"
\* errors.New("Token is invalid or expired")
ErrInvalid == "Token is invalid or expired"

VARIABLES
    token,      \* m.token
    refreshBuffer, \* m.refreshBuffer
    doneCloses, \* number of close(m.done) executed (done is closed iff > 0)
    mu,         \* m.mu: [w: "none" | "waiting" | "held", r: set of readers holding RLock]
    timer,      \* the refresher's timer: [st: "none" | "armed" | "fired" | "idle", d: duration]
    pc,         \* position of the refresher goroutine
    force,      \* the force parameter of the refresh call in progress
    ltoken,     \* refresh's local token
    lexp,       \* refresh's local expiresIn
    lerr,       \* refresh's local err
    ticked,     \* the ticker of the running refreshInner has ticked at least once
    ret,        \* what the last refresh call returned: [delay, err], at pc = "returned"
    called,     \* Retriever calls made by the refresh call in progress (saturating)
    fails,      \* failed Retriever calls of the refresh call in progress (saturating)
    nFetch,     \* number of successful fetches so far
    panics,     \* number of panics recovered so far
    stale,      \* the token the last expire-and-lock transition cleared
    lastReq,    \* what the last Refresh() or Close() call did: "none" | "accepted" |
                \* "dropped" | "closed" | "reclosed"
    rd,         \* the GetToken callers: [pc, tok, err, blk, seen]
    loops       \* number of live refresher goroutines

vars == <<token, refreshBuffer, doneCloses, mu, timer, pc, force, ltoken,
          lexp, lerr, ticked, ret, called, fails, nFetch, panics, stale, lastReq, rd,
          loops>>

\* What the refresher goroutine's own steps leave alone.
callerVars == <<refreshBuffer, doneCloses, lastReq, rd>>

closed == doneCloses > 0

NoRet == [delay |-> 0, err |-> "none"]
NoTimer == [st |-> "none", d |-> 0]
\* blk: what the call found in progress when it began, "forced" for a forced
\* refresh, "outage" for the expire-and-lock transition or the constant phase of
\* an unforced one, "no" otherwise; seen: the number of fetches that had
\* succeeded when it began.
IdleReader == [pc |-> "idle", tok |-> Empty, err |-> Nil, blk |-> "no", seen |-> 0]

Inc(n) == IF n < MaxCount THEN n + 1 ELSE n

\* eb.MaxElapsedTime = m.refreshBuffer - time.Second
MaxElapsedTime == refreshBuffer - Margin

Init ==
    /\ token = Empty
    /\ refreshBuffer \in RefreshBuffers
    /\ doneCloses = 0
    /\ mu = [w |-> "none", r |-> {}]
    /\ timer = NoTimer
    /\ pc = "start"
    /\ force = FALSE
    /\ ltoken = Empty
    /\ lexp = 0
    /\ lerr = Nil
    /\ ticked = FALSE
    /\ ret = NoRet
    /\ called = 0
    /\ fails = 0
    /\ nFetch = 0
    /\ panics = 0
    /\ stale = Empty
    /\ lastReq = "none"
    /\ rd = [r \in Readers |-> IdleReader]
    /\ loops = 1

\* ------------------------------------------------------------ the Retriever
\* What one RetrieveToken() call may return: a fresh token and its validity,
\* or the zero values and an error.
RetrieverResults ==
    {[token |-> Tok(nFetch + 1), expiresIn |-> v, err |-> Nil] :
        v \in IF nFetch < MaxFetch THEN Validities ELSE {}}
    \cup {[token |-> Empty, expiresIn |-> 0, err |-> RetrieverErr]}

\* ------------------------------------------------------------------ refresh
\* The refresh call in progress holds the exclusive lock (its deferred Unlock
\* is pending).
HoldsLock == mu.w = "held"

\* m.mu.Lock(): the writer announces itself, which keeps new readers out, and
\* then waits for the readers that hold the lock.
LockRequested == [mu EXCEPT !.w = "waiting"]

\* refresh without its deferred Unlock.
DeferredUnlock_Forgotten == mu

\* The deferred m.mu.Unlock() of refresh, run when the call returns or unwinds.
DeferredUnlock == IF HoldsLock THEN [mu EXCEPT !.w = "none"] ELSE mu

\* refresh taking the lock up front whatever its mode.
BeginRefresh_AlwaysLock(f) ==
    /\ force' = f
    /\ called' = 0
    /\ fails' = 0
    /\ ltoken' = Empty
    /\ lexp' = 0
    /\ lerr' = Nil
    /\ ret' = NoRet
    /\ ticked' = FALSE
    /\ mu' = LockRequested
    /\ pc' = "lock_wait"

\* refresh(f) is entered: a forced call starts with m.mu.Lock(), an unforced
\* one with the exponential phase.
BeginRefresh(f) ==
    /\ force' = f
    /\ called' = 0
    /\ fails' = 0
    /\ ltoken' = Empty
    /\ lexp' = 0
    /\ lerr' = Nil
    /\ ret' = NoRet
    /\ ticked' = FALSE
    /\ IF f THEN /\ mu' = LockRequested
                 /\ pc' = "lock_wait"
            ELSE /\ mu' = mu
                 /\ pc' = "exp_select"

\* The locals of refresh are gone once refresher has used what it returned.
LocalsDropped ==
    /\ force' = FALSE
    /\ ltoken' = Empty
    /\ lexp' = 0
    /\ lerr' = Nil
    /\ ticked' = FALSE
    /\ called' = 0
    /\ fails' = 0

\* refresh returning the validity without subtracting refreshBuffer.
Return_NoBuffer(d, e) ==
    /\ ret' = [delay |-> IF e = Nil THEN d + refreshBuffer ELSE d, err |-> e]
    /\ mu' = DeferredUnlock
    /\ pc' = "returned"

\* refresh returns (d, e) to refresher; the deferred Unlock runs.
Return(d, e) ==
    /\ ret' = [delay |-> d, err |-> e]
    /\ mu' = DeferredUnlock
    /\ pc' = "returned"

\* refresher creating its timer before the startup refresh.
RefresherStart_TimerFirst ==
    /\ pc = "start"
    /\ BeginRefresh(TRUE)
    /\ timer' = [st |-> "armed", d |-> 0]
    /\ UNCHANGED <<token, nFetch, panics, stale>>
    /\ UNCHANGED callerVars
    /\ UNCHANGED loops

\* refresher() starts (at construction, or restarted after a panic) and calls
\* refresh(true).
RefresherStart ==
    /\ pc = "start"
    /\ BeginRefresh(TRUE)
    /\ UNCHANGED <<token, timer, nFetch, panics, stale>>
    /\ UNCHANGED callerVars
    /\ UNCHANGED loops

\* m.mu.Lock() of a forced refresh returns; the immediate RetrieveToken call
\* starts.
LockAcquire ==
    /\ pc = "lock_wait"
    /\ mu.r = {}
    /\ mu' = [mu EXCEPT !.w = "held"]
    /\ pc' = "imm_fetch"
    /\ called' = Inc(called)
    /\ UNCHANGED <<token, timer, force, ltoken, lexp, lerr, ticked, ret, fails,
                   nFetch, panics, stale>>
    /\ UNCHANGED callerVars
    /\ UNCHANGED loops

\* A forced refresh giving the lock up when its immediate attempt fails.
ImmediateAttempt_UnlockOnFailure ==
    /\ pc = "imm_fetch"
    /\ \E res \in RetrieverResults :
        /\ token' = res.token
        /\ ltoken' = res.token
        /\ lexp' = res.expiresIn
        /\ IF res.err = Nil
              THEN /\ Return(res.expiresIn - refreshBuffer, Nil)
                   /\ nFetch' = nFetch + 1
                   /\ UNCHANGED <<lerr, ticked, fails>>
              ELSE /\ lerr' = Nil
                   /\ ticked' = FALSE
                   /\ fails' = Inc(fails)
                   /\ pc' = "exp_select"
                   /\ mu' = DeferredUnlock
                   /\ UNCHANGED <<ret, nFetch>>
    /\ UNCHANGED <<timer, force, called, panics, stale>>
    /\ UNCHANGED callerVars
    /\ UNCHANGED loops

\* A forced refresh storing the result of its immediate attempt only when the
\* attempt succeeded.
ImmediateAttempt_StoreOnSuccess ==
    /\ pc = "imm_fetch"
    /\ \E res \in RetrieverResults :
        /\ ltoken' = res.token
        /\ lexp' = res.expiresIn
        /\ IF res.err = Nil
              THEN /\ token' = res.token
                   /\ Return(res.expiresIn - refreshBuffer, Nil)
                   /\ nFetch' = nFetch + 1
                   /\ UNCHANGED <<lerr, ticked, fails>>
              ELSE /\ token' = token
                   /\ lerr' = Nil
                   /\ ticked' = FALSE
                   /\ fails' = Inc(fails)
                   /\ pc' = "exp_select"
                   /\ UNCHANGED <<mu, ret, nFetch>>
    /\ UNCHANGED <<timer, force, called, panics, stale>>
    /\ UNCHANGED callerVars
    /\ UNCHANGED loops

\* The immediate attempt of a forced refresh returns: the token is stored
\* whatever the error; on success refresh returns, on failure it goes on to
\* the exponential phase.
ImmediateAttempt ==
    /\ pc = "imm_fetch"
    /\ \E res \in RetrieverResults :
        /\ token' = res.token
        /\ IF res.err = Nil
              THEN /\ Return(res.expiresIn - refreshBuffer, Nil)
                   /\ nFetch' = nFetch + 1
                   /\ ltoken' = res.token
                   /\ lexp' = res.expiresIn
                   /\ UNCHANGED <<lerr, ticked, fails>>
              ELSE /\ ltoken' = res.token
                   /\ lexp' = res.expiresIn
                   /\ lerr' = Nil
                   /\ ticked' = FALSE
                   /\ fails' = Inc(fails)
                   /\ pc' = "exp_select"
                   /\ UNCHANGED <<mu, ret, nFetch>>
    /\ UNCHANGED <<timer, force, called, panics, stale>>
    /\ UNCHANGED callerVars
    /\ UNCHANGED loops

\* The ticker of the exponential phase can deliver a tick: it always delivers
\* a first one; later ones come as long as MaxElapsedTime has not passed, which
\* a negative MaxElapsedTime has from the start.
ExpTickReady == ~ticked \/ MaxElapsedTime >= 0

\* The ticker of the exponential phase has closed its channel: after a tick,
\* once MaxElapsedTime has passed (a MaxElapsedTime of 0 never passes).
ExpTickerClosed == ticked /\ MaxElapsedTime # 0

\* Variant of ExpTick in which one tick of the exponential schedule makes two
\* Retriever calls.
ExpTick_TwoCalls ==
    /\ pc = "exp_select"
    /\ ExpTickReady
    /\ pc' = "exp_fetch"
    /\ ticked' = TRUE
    /\ called' = Inc(Inc(called))
    /\ UNCHANGED <<token, mu, timer, force, ltoken, lexp, lerr, ret, fails, nFetch,
                   panics, stale>>
    /\ UNCHANGED callerVars
    /\ UNCHANGED loops

\* refreshInner, exponential phase: a tick is received and RetrieveToken is
\* called.
ExpTick ==
    /\ pc = "exp_select"
    /\ ExpTickReady
    /\ pc' = "exp_fetch"
    /\ ticked' = TRUE
    /\ called' = Inc(called)
    /\ UNCHANGED <<token, mu, timer, force, ltoken, lexp, lerr, ret, fails, nFetch,
                   panics, stale>>
    /\ UNCHANGED callerVars
    /\ UNCHANGED loops

\* m.setToken(token) and the return of refresh on success (lines 181-182).
\* With the lock held the write and the return are one step; without it (an
\* unforced refresh whose exponential phase succeeded) the write is in flight
\* while GetToken callers may read.
StoreAndReturn(res) ==
    /\ ltoken' = res.token
    /\ lexp' = res.expiresIn
    /\ lerr' = Nil
    /\ IF HoldsLock
          THEN /\ token' = res.token
               /\ Return(res.expiresIn - refreshBuffer, Nil)
          ELSE /\ pc' = "racy_write"
               /\ UNCHANGED <<token, mu, ret>>

\* One RetrieveToken call of a backoff phase returns: a failure is kept as the
\* last error and the phase waits for the next tick; a success ends the phase.
InnerFetch(selectPc) ==
    \E res \in RetrieverResults :
        IF res.err = Nil
           THEN /\ StoreAndReturn(res)
                /\ nFetch' = nFetch + 1
                /\ fails' = fails
           ELSE /\ lerr' = res.err
                /\ fails' = Inc(fails)
                /\ pc' = selectPc
                /\ UNCHANGED <<token, mu, ret, ltoken, lexp, nFetch>>

ExpFetch ==
    /\ pc = "exp_fetch"
    /\ InnerFetch("exp_select")
    /\ UNCHANGED <<timer, force, ticked, called, panics, stale>>
    /\ UNCHANGED callerVars
    /\ UNCHANGED loops

\* The unlocked m.setToken(token) of an unforced refresh completes and refresh
\* returns.
RacyWrite ==
    /\ pc = "racy_write"
    /\ token' = ltoken
    /\ Return(lexp - refreshBuffer, Nil)
    /\ UNCHANGED <<timer, force, ltoken, lexp, lerr, ticked, called, fails, nFetch,
                   panics, stale>>
    /\ UNCHANGED callerVars
    /\ UNCHANGED loops

\* An unforced refresh entering the constant phase without taking the lock.
ExpExhausted_NoLock ==
    /\ pc = "exp_select"
    /\ ExpTickerClosed
    /\ ltoken' = Empty
    /\ lexp' = 0
    /\ lerr' = Nil
    /\ ticked' = FALSE
    /\ pc' = "con_select"
    /\ UNCHANGED <<token, mu, ret, timer, force, called, fails, nFetch, panics, stale>>
    /\ UNCHANGED callerVars
    /\ UNCHANGED loops

\* refresh returning the last Retriever error when the exponential phase is
\* exhausted, instead of going on to the constant phase.
ExpExhausted_ReturnsErr ==
    /\ pc = "exp_select"
    /\ ExpTickerClosed
    /\ ltoken' = Empty
    /\ lexp' = 0
    /\ Return(0, lerr)
    /\ UNCHANGED <<token, lerr, ticked, timer, force, called, fails, nFetch, panics,
                   stale>>
    /\ UNCHANGED callerVars
    /\ UNCHANGED loops

\* Variant of ExpExhausted that requests the exclusive lock after a failed
\* exponential phase whether or not the refresh is forced.
ExpExhausted_LocksAgain ==
    /\ pc = "exp_select"
    /\ ExpTickerClosed
    /\ ltoken' = Empty
    /\ lexp' = 0
    /\ lerr' = Nil
    /\ ticked' = FALSE
    /\ ret' = ret
    /\ token' = token
    /\ pc' = "expire_wait"
    /\ mu' = [mu EXCEPT !.w = "waiting"]
    /\ UNCHANGED <<timer, force, called, fails, nFetch, panics, stale>>
    /\ UNCHANGED callerVars
    /\ UNCHANGED loops

\* refreshInner, exponential phase: the ticker channel is closed and the phase
\* returns ("", 0, last error).  With an error, a forced refresh goes on to the
\* constant phase and an unforced one calls m.mu.Lock() first; without one
\* refresh stores the empty token and returns.
ExpExhausted ==
    /\ pc = "exp_select"
    /\ ExpTickerClosed
    /\ ltoken' = Empty
    /\ lexp' = 0
    /\ IF lerr = Nil
          THEN /\ token' = Empty
               /\ Return(0 - refreshBuffer, Nil)
               /\ UNCHANGED <<lerr, ticked>>
          ELSE /\ lerr' = Nil
               /\ ticked' = FALSE
               /\ ret' = ret
               /\ token' = token
               /\ IF force THEN /\ pc' = "con_select"
                                /\ mu' = mu
                           ELSE /\ pc' = "expire_wait"
                                /\ mu' = LockRequested
    /\ UNCHANGED <<timer, force, called, fails, nFetch, panics, stale>>
    /\ UNCHANGED callerVars
    /\ UNCHANGED loops

\* The expire-and-lock transition leaving the expired token in place.
ExpireAndLock_NoClear ==
    /\ pc = "expire_wait"
    /\ mu.r = {}
    /\ mu' = [mu EXCEPT !.w = "held"]
    /\ stale' = token
    /\ pc' = "con_select"
    /\ UNCHANGED <<token, timer, force, ltoken, lexp, lerr, ticked, ret, called, fails,
                   nFetch, panics>>
    /\ UNCHANGED callerVars
    /\ UNCHANGED loops

\* The m.mu.Lock() of the expire-and-lock transition returns; the token is set
\* to what the exponential phase returned, the empty string, and the constant
\* phase starts.
ExpireAndLock ==
    /\ pc = "expire_wait"
    /\ mu.r = {}
    /\ mu' = [mu EXCEPT !.w = "held"]
    /\ stale' = token
    /\ token' = ltoken
    /\ pc' = "con_select"
    /\ UNCHANGED <<timer, force, ltoken, lexp, lerr, ticked, ret, called, fails,
                   nFetch, panics>>
    /\ UNCHANGED callerVars
    /\ UNCHANGED loops

\* refreshInner, constant phase: a tick is received and RetrieveToken is
\* called.  The constant ticker never closes.
ConTick ==
    /\ pc = "con_select"
    /\ pc' = "con_fetch"
    /\ ticked' = TRUE
    /\ called' = Inc(called)
    /\ UNCHANGED <<token, mu, timer, force, ltoken, lexp, lerr, ret, fails, nFetch,
                   panics, stale>>
    /\ UNCHANGED callerVars
    /\ UNCHANGED loops

ConFetch ==
    /\ pc = "con_fetch"
    /\ InnerFetch("con_select")
    /\ UNCHANGED <<timer, force, ticked, called, panics, stale>>
    /\ UNCHANGED callerVars
    /\ UNCHANGED loops

\* refreshInner listening to done in the exponential phase only.
InnerShutdown_ExpOnly ==
    /\ pc = "exp_select"
    /\ closed
    /\ lerr' = ErrShutdown
    /\ Return(0, ErrShutdown)
    /\ UNCHANGED <<token, timer, force, ltoken, lexp, ticked, called, fails, nFetch,
                   panics, stale>>
    /\ UNCHANGED callerVars
    /\ UNCHANGED loops

\* refresh clearing the token when it gives up on shutdown.
InnerShutdown_ClearsToken ==
    /\ pc \in {"exp_select", "con_select"}
    /\ closed
    /\ lerr' = ErrShutdown
    /\ token' = Empty
    /\ Return(0, ErrShutdown)
    /\ UNCHANGED <<timer, force, ltoken, lexp, ticked, called, fails, nFetch,
                   panics, stale>>
    /\ UNCHANGED callerVars
    /\ UNCHANGED loops

\* Variant of InnerShutdown whose return leaves the exclusive lock held.
InnerShutdown_KeepsLock ==
    /\ pc \in {"exp_select", "con_select"}
    /\ closed
    /\ lerr' = ErrShutdown
    /\ ret' = [delay |-> 0, err |-> ErrShutdown]
    /\ mu' = mu
    /\ pc' = "returned"
    /\ UNCHANGED <<token, timer, force, ltoken, lexp, ticked, called, fails, nFetch,
                   panics, stale>>
    /\ UNCHANGED callerVars
    /\ UNCHANGED loops

\* refreshInner receives from done in either phase: it returns ErrShutdown and
\* refresh returns (0, ErrShutdown).
InnerShutdown ==
    /\ pc \in {"exp_select", "con_select"}
    /\ closed
    /\ lerr' = ErrShutdown
    /\ Return(0, ErrShutdown)
    /\ UNCHANGED <<token, timer, force, ltoken, lexp, ticked, called, fails, nFetch,
                   panics, stale>>
    /\ UNCHANGED callerVars
    /\ UNCHANGED loops

\* The recover starting a new refresher while the faulted one lives on.
Panic_KeepsOld ==
    /\ pc \in {"imm_fetch", "exp_fetch", "con_fetch"}
    /\ panics < MaxPanics
    /\ panics' = panics + 1
    /\ mu' = DeferredUnlock
    /\ timer' = NoTimer
    /\ pc' = "start"
    /\ LocalsDropped
    /\ UNCHANGED <<token, ret, nFetch, stale>>
    /\ loops' = loops + 1
    /\ UNCHANGED callerVars

\* The restart after a panic losing the cached token.
Panic_LosesToken ==
    /\ pc \in {"imm_fetch", "exp_fetch", "con_fetch"}
    /\ panics < MaxPanics
    /\ panics' = panics + 1
    /\ mu' = DeferredUnlock
    /\ timer' = NoTimer
    /\ pc' = "start"
    /\ LocalsDropped
    /\ token' = Empty
    /\ UNCHANGED <<ret, nFetch, stale>>
    /\ loops' = (loops - 1) + 1
    /\ UNCHANGED callerVars

\* Variant of Panic whose unwinding does not run the deferred Unlock.
Panic_KeepsLock ==
    /\ pc \in {"imm_fetch", "exp_fetch", "con_fetch"}
    /\ panics < MaxPanics
    /\ panics' = panics + 1
    /\ mu' = mu
    /\ timer' = NoTimer
    /\ pc' = "start"
    /\ LocalsDropped
    /\ UNCHANGED <<token, ret, nFetch, stale>>
    /\ loops' = (loops - 1) + 1
    /\ UNCHANGED callerVars

\* A RetrieveToken call panics.  As the stack unwinds refresh's deferred
\* Unlock runs, then refresher's deferred timer.Stop(), then the recover, which
\* starts a new refresher goroutine.
Panic ==
    /\ pc \in {"imm_fetch", "exp_fetch", "con_fetch"}
    /\ panics < MaxPanics
    /\ panics' = panics + 1
    /\ mu' = DeferredUnlock
    /\ timer' = NoTimer
    /\ pc' = "start"
    /\ LocalsDropped
    /\ UNCHANGED <<token, ret, nFetch, stale>>
    /\ loops' = (loops - 1) + 1    \* go m.refresher() as the panicking one ends
    /\ UNCHANGED callerVars

\* ---------------------------------------------------------------- refresher
\* The timer as refresher leaves it when it returns (defer timer.Stop()).
TimerStopped == IF timer.st = "none" THEN timer ELSE [st |-> "idle", d |-> 0]

\* time.NewTimer(d) and timer.Reset(d)
TimerArmed(d) == [st |-> "armed", d |-> d]

\* refresher not checking for ErrShutdown after a refresh call.
AfterRefresh_IgnoresShutdown ==
    /\ pc = "returned"
    /\ IF timer.st = "none" \/ ~force \/ timer.st = "armed"
          THEN /\ pc' = "select"
               /\ timer' = TimerArmed(ret.delay)
               /\ ret' = NoRet
          ELSE /\ pc' = "drain"
               /\ UNCHANGED <<timer, ret>>
    /\ LocalsDropped
    /\ UNCHANGED <<token, mu, nFetch, panics, stale>>
    /\ UNCHANGED callerVars
    /\ UNCHANGED loops

\* refresher going back to its select after a forced refresh without draining
\* the firing that is pending in timer.C.
AfterRefresh_NoDrain ==
    /\ pc = "returned"
    /\ IF ret.err = ErrShutdown
          THEN /\ pc' = "stopped"
               /\ timer' = TimerStopped
               /\ ret' = NoRet
               /\ loops' = loops - 1
          ELSE /\ pc' = "select"
               /\ timer' = IF timer.st = "fired" THEN timer ELSE TimerArmed(ret.delay)
               /\ ret' = NoRet
               /\ loops' = loops
    /\ LocalsDropped
    /\ UNCHANGED <<token, mu, nFetch, panics, stale>>
    /\ UNCHANGED callerVars

\* Variant of AfterRefresh whose force path drains the timer channel whatever
\* timer.Stop() reported.
AfterRefresh_DrainsAlways ==
    /\ pc = "returned"
    /\ IF ret.err = ErrShutdown
          THEN /\ pc' = "stopped"
               /\ timer' = TimerStopped
               /\ ret' = NoRet
               /\ loops' = loops - 1
          ELSE IF timer.st = "none" \/ ~force
                  THEN /\ pc' = "select"
                       /\ timer' = [st |-> "armed", d |-> ret.delay]
                       /\ ret' = NoRet
                       /\ loops' = loops
                  ELSE /\ pc' = "drain"
                       /\ UNCHANGED <<timer, ret, loops>>
    /\ LocalsDropped
    /\ UNCHANGED <<token, mu, nFetch, panics, stale>>
    /\ UNCHANGED callerVars

\* refresher after a refresh call returned: it returns on ErrShutdown; after
\* the startup refresh it creates the timer; after a timed refresh it resets
\* it; after a forced one it stops the timer, and resets it at once when Stop
\* reports the timer was still armed.
AfterRefresh ==
    /\ pc = "returned"
    /\ IF ret.err = ErrShutdown
          THEN /\ pc' = "stopped"
               /\ timer' = TimerStopped
               /\ ret' = NoRet
               /\ loops' = loops - 1
          ELSE IF timer.st = "none" \/ ~force \/ timer.st = "armed"
                  THEN /\ pc' = "select"
                       /\ timer' = TimerArmed(ret.delay)
                       /\ ret' = NoRet
                       /\ loops' = loops
                  ELSE /\ pc' = "drain"
                       /\ UNCHANGED <<timer, ret, loops>>
    /\ LocalsDropped
    /\ UNCHANGED <<token, mu, nFetch, panics, stale>>
    /\ UNCHANGED callerVars

\* timer.Stop() returned false: <-timer.C receives the pending firing, then
\* timer.Reset(expWithBuffer).
DrainTimer ==
    /\ pc = "drain"
    /\ timer.st = "fired"
    /\ timer' = TimerArmed(ret.delay)
    /\ ret' = NoRet
    /\ pc' = "select"
    /\ UNCHANGED <<token, mu, force, ltoken, lexp, lerr, ticked, called, fails,
                   nFetch, panics, stale>>
    /\ UNCHANGED callerVars
    /\ UNCHANGED loops

\* The timer case of the select starting a refresh without consuming the
\* firing.
SelectTimer_KeepsFiring ==
    /\ pc \in {"select", "parked"}
    /\ timer.st = "fired"
    /\ timer' = timer
    /\ BeginRefresh(FALSE)
    /\ UNCHANGED <<token, nFetch, panics, stale>>
    /\ UNCHANGED callerVars
    /\ UNCHANGED loops

\* The select of refresher takes the timer case: the firing is received and
\* refresh(false) is called.
SelectTimer ==
    /\ pc \in {"select", "parked"}
    /\ timer.st = "fired"
    /\ timer' = [timer EXCEPT !.st = "idle"]
    /\ BeginRefresh(FALSE)
    /\ UNCHANGED <<token, nFetch, panics, stale>>
    /\ UNCHANGED callerVars
    /\ UNCHANGED loops

\* The select of refresher takes the done case: refresher returns.
SelectDone ==
    /\ pc \in {"select", "parked"}
    /\ closed
    /\ pc' = "stopped"
    /\ timer' = TimerStopped
    /\ UNCHANGED <<token, mu, force, ltoken, lexp, lerr, ticked, ret, called, fails,
                   nFetch, panics, stale>>
    /\ loops' = loops - 1
    /\ UNCHANGED callerVars

\* The select of refresher finds no case ready and the goroutine parks, a
\* receiver waiting on timer.C, m.force and m.done.
Park ==
    /\ pc = "select"
    /\ ~closed
    /\ timer.st # "fired"
    /\ pc' = "parked"
    /\ UNCHANGED <<token, mu, timer, force, ltoken, lexp, lerr, ticked, ret, called,
                   fails, nFetch, panics, stale>>
    /\ UNCHANGED callerVars
    /\ UNCHANGED loops

\* ------------------------------------------------------------------ callers
\* A receiver is waiting on the unbuffered m.force: refresher is parked in its
\* select and nothing has woken it yet.
ForceReceiverWaiting == pc = "parked" /\ ~closed /\ timer.st # "fired"

\* Refresh() with a buffered m.force: the request is taken whenever refresher
\* is at its select, parked or not, whatever else is ready.
Refresh_Buffered ==
    /\ IF pc \in {"select", "parked"}
          THEN /\ lastReq' = "accepted"
               /\ BeginRefresh(TRUE)
          ELSE /\ lastReq' = "dropped"
               /\ UNCHANGED <<mu, pc, force, ltoken, lexp, lerr, ticked, ret, called,
                              fails>>
    /\ UNCHANGED <<token, timer, nFetch, panics, stale>>
    /\ UNCHANGED <<refreshBuffer, doneCloses, rd, loops>>

\* Refresh() with a blocking send on m.force: the call waits for refresher to
\* receive.
Refresh_Blocking ==
    /\ ForceReceiverWaiting
    /\ lastReq' = "accepted"
    /\ BeginRefresh(TRUE)
    /\ UNCHANGED <<token, timer, nFetch, panics, stale>>
    /\ UNCHANGED <<refreshBuffer, doneCloses, rd, loops>>

\* Refresh(): the non-blocking send on m.force.  With a receiver waiting the
\* send happens and refresher takes the force case, calling refresh(true);
\* otherwise the default case is taken.
Refresh ==
    /\ IF ForceReceiverWaiting
          THEN /\ lastReq' = "accepted"
               /\ BeginRefresh(TRUE)
          ELSE /\ lastReq' = "dropped"
               /\ UNCHANGED <<mu, pc, force, ltoken, lexp, lerr, ticked, ret, called,
                              fails>>
    /\ UNCHANGED <<token, timer, nFetch, panics, stale>>
    /\ UNCHANGED <<refreshBuffer, doneCloses, rd, loops>>

\* Close() closing the channel at every call, without the sync.Once.
Close_NoOnce ==
    /\ doneCloses' = doneCloses + 1
    /\ lastReq' = IF closed THEN "reclosed" ELSE "closed"
    /\ UNCHANGED <<token, refreshBuffer, mu, timer, pc, force, ltoken, lexp, lerr,
                   ticked, ret, called, fails, nFetch, panics, stale, rd, loops>>

\* Close(): closeOnce.Do(close(m.done)); only the first call closes done.  The
\* call returns nil whether or not it closed the channel.
Close ==
    /\ doneCloses' = IF doneCloses = 0 THEN 1 ELSE doneCloses
    /\ lastReq' = IF closed THEN "reclosed" ELSE "closed"
    /\ UNCHANGED <<token, refreshBuffer, mu, timer, pc, force, ltoken, lexp, lerr,
                   ticked, ret, called, fails, nFetch, panics, stale, rd, loops>>

\* The duration of the armed timer elapses: the firing is put in timer.C.  The
\* duration is spent and no longer kept.
TimerFire ==
    /\ timer.st = "armed"
    /\ timer' = [st |-> "fired", d |-> 0]
    /\ UNCHANGED <<token, refreshBuffer, doneCloses, mu, pc, force,
                   ltoken, lexp, lerr, ticked, ret, called, fails, nFetch, panics,
                   stale, lastReq, rd, loops>>

\* ----------------------------------------------------------------- GetToken
\* A forced refresh is in progress: refresh(true) has been entered and has not
\* returned.
ForcedInProgress ==
    force /\ pc \in {"lock_wait", "imm_fetch", "exp_select", "exp_fetch",
                     "con_select", "con_fetch"}

\* An unforced refresh has found the token expired: it is in its
\* expire-and-lock transition or its constant phase.
OutageInProgress == ~force /\ pc \in {"expire_wait", "con_select", "con_fetch"}

\* What a read of m.token may yield: the stored value, or, while the unlocked
\* write of refresh is in flight, the old value, the new one or a mix of both.
ReadValues == IF pc = "racy_write" THEN {token, ltoken, Torn} ELSE {token}

readerFrame == <<token, refreshBuffer, doneCloses, timer, pc, force,
                 ltoken, lexp, lerr, ticked, ret, called, fails, nFetch, panics,
                 stale, lastReq, loops>>

\* A goroutine calls GetToken().
Invoke(r) ==
    /\ rd[r].pc = "idle"
    /\ rd' = [rd EXCEPT ![r] =
                [pc |-> "calling", tok |-> Empty, err |-> Nil,
                 blk |-> IF ForcedInProgress THEN "forced"
                         ELSE IF OutageInProgress THEN "outage" ELSE "no",
                 seen |-> IF ForcedInProgress \/ OutageInProgress THEN nFetch ELSE 0]]
    /\ UNCHANGED mu
    /\ UNCHANGED readerFrame

\* m.mu.RLock() returns: no writer holds or waits for the lock.
RLock(r) ==
    /\ rd[r].pc = "calling"
    /\ mu.w = "none"
    /\ mu' = [mu EXCEPT !.r = @ \cup {r}]
    /\ rd' = [rd EXCEPT ![r].pc = "locked"]
    /\ UNCHANGED readerFrame

\* if m.token == "" { err = errors.New("Token is invalid or expired") }
CheckToken(r) ==
    /\ rd[r].pc = "locked"
    /\ \E v \in ReadValues :
        rd' = [rd EXCEPT ![r].pc = "checked",
                         ![r].err = IF v = Empty THEN ErrInvalid ELSE Nil]
    /\ UNCHANGED mu
    /\ UNCHANGED readerFrame

\* return m.token, err, and the deferred m.mu.RUnlock().
ReturnToken(r) ==
    /\ rd[r].pc = "checked"
    /\ \E v \in ReadValues :
        rd' = [rd EXCEPT ![r].pc = "returned", ![r].tok = v]
    /\ mu' = [mu EXCEPT !.r = @ \ {r}]
    /\ UNCHANGED readerFrame

\* The caller has its result and may call again.
Finish(r) ==
    /\ rd[r].pc = "returned"
    /\ rd' = [rd EXCEPT ![r] = IdleReader]
    /\ UNCHANGED mu
    /\ UNCHANGED readerFrame

GetToken ==
    \E r \in Readers :
        Invoke(r) \/ RLock(r) \/ CheckToken(r) \/ ReturnToken(r) \/ Finish(r)

\* ------------------------------------------------------------ specification
RefreshSteps ==
    \/ LockAcquire
    \/ ImmediateAttempt
    \/ ExpTick
    \/ ExpFetch
    \/ RacyWrite
    \/ ExpExhausted
    \/ ExpireAndLock
    \/ ConTick
    \/ ConFetch
    \/ InnerShutdown

RefresherSteps ==
    \/ RefresherStart
    \/ AfterRefresh
    \/ DrainTimer
    \/ SelectTimer
    \/ SelectDone
    \/ Park
    \/ Panic

Next ==
    \/ RefreshSteps
    \/ RefresherSteps
    \/ Refresh
    \/ Close
    \/ TimerFire
    \/ GetToken

Spec == Init /\ [][Next]_vars

\* ------------------------------------------------------------------- claims
\* GetToken of goroutine r returns in this step.
Returns(r) == rd[r].pc = "checked" /\ rd'[r].pc = "returned"

\* The tokens fetched before a call that saw n successful fetches began.
FetchedBefore(n) == {Tok(j) : j \in 1..n}

\* An unforced refresh is in its exponential phase.
InTimedExp == ~force /\ pc \in {"exp_select", "exp_fetch"}

\* C1: while an unforced refresh is in its exponential phase no writer holds or
\* waits for the lock, so RLock does not wait, the cached token is non-empty
\* and stays what it was, and every GetToken call that returns during the
\* phase returns that token with a nil error.
C1_StaleWhileRevalidate ==
    /\ [](InTimedExp => mu.w = "none" /\ token # Empty)
    /\ [][InTimedExp /\ InTimedExp' =>
            /\ token' = token
            /\ \A r \in Readers :
                Returns(r) => rd'[r].tok = token /\ rd'[r].err = Nil]_vars

\* A caller got the cached token back while a Retriever call of the
\* exponential phase of an unforced refresh was in flight, after an earlier one
\* had failed.
C1_Witness ==
    /\ InTimedExp
    /\ pc = "exp_fetch"
    /\ fails >= 1
    /\ \E r \in Readers :
        rd[r].pc = "returned" /\ rd[r].tok = token /\ rd[r].err = Nil

\* An unforced or forced refresh is in its constant phase.
InConstant == pc \in {"con_select", "con_fetch"}

\* C2: the constant phase runs only with the exclusive lock held, no reader
\* inside and the token cleared to ""; the expire-and-lock transition clears
\* the token as it takes the lock; and from the clear on no GetToken call
\* returns the token that was cleared.
C2_ExpiredNeverObserved ==
    /\ [](InConstant => HoldsLock /\ mu.r = {} /\ token = Empty)
    /\ [][pc = "expire_wait" /\ pc' # "expire_wait" =>
            token' = Empty /\ stale' = token /\ mu'.w = "held"]_vars
    /\ [][\A r \in Readers :
            Returns(r) /\ stale # Empty => rd'[r].tok # stale]_vars

\* An unforced refresh cleared a token and is retrying in the constant phase
\* while a caller waits in RLock.
C2_Witness ==
    /\ ~force
    /\ pc = "con_fetch"
    /\ stale # Empty
    /\ \E r \in Readers : rd[r].pc = "calling" /\ rd[r].blk = "outage"

\* refresh(true) is past its m.mu.Lock().
ForcedLocked ==
    force /\ pc \in {"imm_fetch", "exp_select", "exp_fetch", "con_select", "con_fetch"}

\* C3: a forced refresh holds the exclusive lock, with no reader inside, from
\* its Lock to its return, through every retry; when it returns with success
\* the lock is free and the token is the one just fetched; and a GetToken call
\* that began during a forced refresh (no Retriever call having panicked)
\* returns only after that refresh returned, never with a token fetched before
\* the call began, and with the empty token only after shutdown.
C3_ForcedHoldsLock ==
    /\ [](ForcedLocked => HoldsLock /\ mu.r = {})
    /\ [](pc = "returned" /\ force /\ ret.err = Nil =>
            mu.w = "none" /\ token = Tok(nFetch) /\ token # Empty)
    /\ [][\A r \in Readers :
            Returns(r) /\ rd[r].blk = "forced" /\ panics = 0 =>
                /\ ~HoldsLock
                /\ rd'[r].tok \notin FetchedBefore(rd[r].seen)
                /\ (rd'[r].tok = Empty => closed)]_vars

\* A caller that began during a forced refresh, a token being cached then, got
\* the token that refresh fetched, after the Retriever had failed at least once.
C3_Witness ==
    \E r \in Readers :
        /\ rd[r].pc = "returned"
        /\ rd[r].blk = "forced"
        /\ rd[r].seen >= 1
        /\ rd[r].tok = Tok(rd[r].seen + 1)
        /\ pc = "returned" /\ force /\ fails >= 1

\* C4 as stated: a GetToken call that began while an unforced refresh was in
\* its expire-and-lock transition or constant phase returns, once unblocked,
\* the 'invalid or expired' failure with the empty token.
C4_Original ==
    [][\A r \in Readers :
        Returns(r) /\ rd[r].blk = "outage" =>
            rd'[r].tok = Empty /\ rd'[r].err = ErrInvalid]_vars

\* C4 amended: during the expire-and-lock transition and the constant phase of
\* an unforced refresh a writer holds or waits for the lock, so GetToken calls
\* wait; once unblocked such a call never returns a token fetched before it
\* began (the stale one); it returns the failure exactly when it returns the
\* empty token, and that only if the phase was ended by shutdown or a panic;
\* otherwise it returns a token fetched since with a nil error.
C4_BlockedUntilRecovery ==
    /\ [](OutageInProgress => mu.w # "none")
    /\ [][\A r \in Readers :
            Returns(r) /\ rd[r].blk = "outage" =>
                /\ ~HoldsLock
                /\ rd'[r].tok \notin FetchedBefore(rd[r].seen)
                /\ (rd'[r].err = ErrInvalid <=> rd'[r].tok = Empty)
                /\ (rd'[r].err = Nil <=> rd'[r].tok # Empty)
                /\ (rd'[r].tok = Empty => closed \/ panics > 0)]_vars

\* A caller that waited through the outage of an unforced refresh got the token
\* the constant phase fetched, with a nil error.
C4_Witness ==
    \E r \in Readers :
        /\ rd[r].pc = "returned"
        /\ rd[r].blk = "outage"
        /\ rd[r].tok = Tok(rd[r].seen + 1)
        /\ rd[r].err = Nil
        /\ stale = Tok(rd[r].seen)

\* The values the token field holds or, with a write in flight, is being
\* given.
CachedValues == IF pc = "racy_write" THEN {token, ltoken} ELSE {token}

\* C5: a GetToken call returns a value of the token field, and the 'invalid or
\* expired' error exactly when that value is "", nil otherwise; and no step of
\* GetToken changes the token.
C5_GetTokenResult ==
    [][\A r \in Readers :
        /\ Returns(r) =>
            /\ rd'[r].tok \in CachedValues
            /\ (rd'[r].err = ErrInvalid <=> rd'[r].tok = Empty)
            /\ (rd'[r].err = Nil <=> rd'[r].tok # Empty)
        /\ rd'[r] # rd[r] => token' = token]_vars

\* No refresh call is in progress and the last one returned success.
Quiescent ==
    \/ pc = "returned" /\ ret.err = Nil
    \/ pc \in {"select", "parked", "drain"}

\* C6: once a refresh call has returned success, and until the next one
\* begins, the exclusive lock is free, the cached token is the token of the
\* most recent successful fetch, and a GetToken call that returns gets exactly
\* that token with a nil error.
C6_TokenAfterRefresh ==
    /\ [](Quiescent =>
            mu.w = "none" /\ nFetch >= 1 /\ token = Tok(nFetch)
            /\ ReadValues = {Tok(nFetch)})
    /\ [][\A r \in Readers :
            Returns(r) /\ Quiescent =>
                rd'[r].tok = Tok(nFetch) /\ rd'[r].err = Nil]_vars

\* After a second successful fetch, made by an unforced refresh, a caller got
\* the second token while the refresher was parked.
C6_Witness ==
    /\ pc = "parked"
    /\ nFetch = 2
    /\ lastReq = "none"
    /\ \E r \in Readers :
        rd[r].pc = "returned" /\ rd[r].tok = Tok(2) /\ rd[r].blk = "no"

\* C7: a forced refresh that returns success after k failed Retriever calls
\* has made exactly k + 1 calls (counted as long as the counters have not
\* saturated), has stored the fetched token, and returns the fetched validity
\* minus refreshBuffer with a nil error.
C7_ForcedCallCount ==
    pc = "returned" /\ force /\ ret.err = Nil =>
        /\ fails < MaxCount => called = fails + 1
        /\ token = ltoken
        /\ token = Tok(nFetch)
        /\ lexp \in Validities
        /\ ret.delay = lexp - refreshBuffer

\* A forced refresh succeeded at its third call, in the constant phase, and
\* another one returned a negative delay.
C7_Witness ==
    /\ pc = "returned" /\ force /\ ret.err = Nil
    /\ fails = 2 /\ called = 3
    /\ ret.delay < 0

\* C10: refresh returns either a nil error with the fetched validity minus
\* refreshBuffer as delay, the fetched token being stored, or ErrShutdown with
\* delay 0 after done was closed; it never returns a Retriever error.
C10_TwoOutcomes ==
    pc = "returned" =>
        \/ /\ ret.err = Nil
           /\ lexp \in Validities
           /\ ret.delay = lexp - refreshBuffer
           /\ token = Tok(nFetch)
           /\ nFetch >= 1
        \/ /\ ret.err = ErrShutdown
           /\ ret.delay = 0
           /\ closed

\* A forced refresh whose Retriever failed three times, the last time in the
\* constant phase, returned ErrShutdown.
C10_Witness ==
    /\ pc = "returned"
    /\ ret.err = ErrShutdown
    /\ force
    /\ refreshBuffer < Margin
    /\ called = 3 /\ fails = 3

\* ----------------------------------------------------------------- fairness
\* The refresher goroutine keeps running, a Retriever call returns, a caller
\* inside GetToken runs on to its return, and a select of Go, which picks among
\* the ready cases at random, does not pass over the done case forever.
RefresherProgress ==
    \/ RefresherStart
    \/ LockAcquire
    \/ ImmediateAttempt
    \/ ExpFetch
    \/ ConFetch
    \/ RacyWrite
    \/ ExpireAndLock
    \/ AfterRefresh
    \/ DrainTimer

DoneTaken == InnerShutdown \/ SelectDone

CallerProgress == \E r \in Readers : CheckToken(r) \/ ReturnToken(r)

FairSpec ==
    /\ Spec
    /\ WF_vars(RefresherProgress)
    /\ SF_vars(DoneTaken)
    /\ WF_vars(CallerProgress)

\* C8: once done is closed the refresher goroutine eventually returns, from
\* wherever it is, and a refresher that has returned is never restarted.
C8_ShutdownStops ==
    /\ closed ~> pc = "stopped"
    /\ [][pc = "stopped" => pc' = "stopped"]_vars

\* The refresher returned out of the constant phase of an unforced refresh:
\* the token it had cleared was never replaced, and nothing panicked.
C8_Witness ==
    /\ pc = "stopped"
    /\ closed
    /\ stale # Empty
    /\ token = Empty
    /\ panics = 0

\* A Retriever call starts in this step.
AttemptStarts ==
    /\ pc \notin {"imm_fetch", "exp_fetch", "con_fetch"}
    /\ pc' \in {"imm_fetch", "exp_fetch", "con_fetch"}

\* C9 as stated: once done is closed no Retriever call is started, and the
\* select of refresher goes nowhere but to its return.
C9_Original ==
    [][closed =>
        /\ ~AttemptStarts
        /\ pc \in {"select", "parked"} => pc' \in {"select", "parked", "stopped"}]_vars

\* C9 amended: once done is closed the done case is ready at every tick
\* boundary and at the select of refresher.  When a backoff phase takes it,
\* refresh returns (0, ErrShutdown) with no further Retriever call and no write
\* of the token, the lock is released, and refresher returns without calling
\* refresh again; ErrShutdown is returned in no other way.  The select of
\* refresher takes no force request after the close: it returns, or it takes a
\* timer firing that is ready at the same time.
C9_ShutdownAtSelect ==
    /\ [](closed /\ pc \in {"exp_select", "con_select"} => ENABLED InnerShutdown)
    /\ [](closed /\ pc \in {"select", "parked"} => ENABLED SelectDone)
    /\ [](ret.err = ErrShutdown => closed /\ ret.delay = 0 /\ mu.w = "none")
    /\ [][(pc \in {"exp_select", "con_select"}) /\ pc' = "returned" =>
            /\ closed
            /\ ret'.err = ErrShutdown
            /\ called' = called
            /\ token' = token]_vars
    /\ [][pc = "returned" /\ ret.err = ErrShutdown /\ pc' # pc =>
            pc' = "stopped" /\ timer'.st # "armed"]_vars
    /\ [][closed /\ pc \in {"select", "parked"} /\ pc' # pc =>
            pc' = "stopped" \/ (timer.st = "fired" /\ pc' = "exp_select")]_vars

\* An unforced refresh whose Retriever had failed returned ErrShutdown from a
\* tick boundary.
C9_Witness ==
    /\ pc = "returned"
    /\ ret.err = ErrShutdown
    /\ ~force
    /\ fails >= 1

\* C11: Close() can be called in every state, any number of times: done is
\* closed by the first call and never a second time, and a call changes nothing
\* but done: not the token, the lock, the refresher or a GetToken in progress.
C11_CloseIdempotent ==
    /\ [](doneCloses \in {0, 1})
    /\ [](ENABLED Close)
    /\ [][doneCloses' # doneCloses => doneCloses = 0 /\ doneCloses' = 1]_vars
    /\ [][lastReq' \in {"closed", "reclosed"} /\ lastReq' # lastReq =>
            /\ closed'
            /\ (lastReq' = "reclosed" <=> closed)
            /\ UNCHANGED <<token, mu, pc, timer, rd, loops>>]_vars

\* Close() was called again after done was closed, while the refresher was
\* still inside a refresh and a caller was inside GetToken.
C11_Witness ==
    /\ lastReq = "reclosed"
    /\ doneCloses = 1
    /\ pc \in {"exp_fetch", "con_fetch", "imm_fetch"}
    /\ \E r \in Readers : rd[r].pc \in {"calling", "locked", "checked"}

\* A step in which a Close() call takes effect.
CloseStep == lastReq' \in {"closed", "reclosed"} /\ lastReq' # lastReq

\* refresh returns the shutdown failure in this step.
ShutdownReturn == pc # "returned" /\ pc' = "returned" /\ ret'.err = ErrShutdown

\* C12 as stated, for the refresh calls made from the select of refresher (the
\* token cached when they begin is the last one fetched): Close() leaves the
\* token unchanged, and a refresh that returns the shutdown failure without
\* having gone through the expire-and-lock transition returns with the token
\* it began with.
C12_Original ==
    [][/\ CloseStep => token' = token
       /\ ShutdownReturn /\ timer.st # "none" /\ (force \/ ~HoldsLock) =>
            token' = Tok(nFetch)]_vars

\* C12 amended: Close() leaves the token unchanged and the return of the
\* shutdown failure writes nothing.  Throughout the exponential phase of an
\* unforced refresh the token is the last one fetched, so such a refresh ended
\* by shutdown returns with the non-empty token it began with.  A forced
\* refresh ended by shutdown returns with the empty token, whatever was cached
\* when it began: its failed immediate attempt stored "".
C12_ShutdownKeepsToken ==
    /\ [][CloseStep => token' = token]_vars
    /\ [][ShutdownReturn => token' = token]_vars
    /\ [](InTimedExp => token = Tok(nFetch) /\ token # Empty)
    /\ [][ShutdownReturn /\ InTimedExp => token' = Tok(nFetch) /\ token' # Empty]_vars
    /\ [][ShutdownReturn /\ ~InTimedExp => token' = Empty]_vars

\* An unforced refresh gave up on shutdown in its exponential phase, after a
\* failed Retriever call, and the token fetched before it is still cached.
C12_Witness ==
    /\ pc = "returned"
    /\ ret.err = ErrShutdown
    /\ ~force
    /\ fails >= 1
    /\ token = Tok(nFetch)
    /\ token # Empty

\* The last token fetched has been cleared by an expire-and-lock transition:
\* a failing unforced refresh used up its window.
ExpiredWindow == stale # Empty /\ stale = Tok(nFetch)

\* A forced refresh is past its failed immediate attempt.
ForcedRetrying ==
    force /\ pc \in {"exp_select", "exp_fetch", "con_select", "con_fetch"}

\* C13 as stated: the token is "" if and only if no fetch has succeeded, or a
\* failing unforced refresh has used up the window of the last token fetched,
\* or done is closed.
C13_Original ==
    token = Empty <=> (nFetch = 0 \/ ExpiredWindow \/ closed)

\* C13 amended: the token is "" from a clearing event until the next
\* successful fetch.  It is "" while no fetch has succeeded, after an
\* expire-and-lock transition, and while a forced refresh retries after its
\* failed immediate attempt; a non-empty token is the last one fetched (the
\* one before it while the unlocked store of the last is in flight).  The
\* token becomes "" only by the store of a failed immediate attempt or by the
\* expire-and-lock transition, never by Close(), and it stops being "" only by
\* the store of a successful fetch.
C13_EmptyToken ==
    /\ [](nFetch = 0 \/ ExpiredWindow \/ ForcedRetrying \/ InConstant => token = Empty)
    /\ [](token # Empty =>
            /\ nFetch >= 1
            /\ token = IF pc = "racy_write" THEN Tok(nFetch - 1) ELSE Tok(nFetch))
    /\ [][token # Empty /\ token' = Empty =>
            \/ pc = "imm_fetch" /\ force /\ pc' = "exp_select"
            \/ pc = "expire_wait" /\ ~force /\ stale' = token]_vars
    /\ [][token = Empty /\ token' # Empty =>
            nFetch' = nFetch + 1 /\ token' = Tok(nFetch') /\ HoldsLock]_vars
    /\ [][CloseStep => token' = token]_vars

\* With done open and no window ever used up, a forced refresh over a cached
\* token is retrying after its failed immediate attempt, the token cleared.
C13_Witness ==
    /\ token = Empty
    /\ nFetch >= 1
    /\ ~closed
    /\ stale = Empty
    /\ panics = 0
    /\ force /\ pc = "exp_fetch"

\* The Retriever calls in progress: one for every live refresher goroutine
\* inside a RetrieveToken call.
RetrieverCalls == IF pc \in {"imm_fetch", "exp_fetch", "con_fetch"} THEN loops ELSE 0

\* A refresher goroutine is inside a refresh call.
InRefresh ==
    pc \in {"lock_wait", "imm_fetch", "exp_select", "exp_fetch", "racy_write",
            "expire_wait", "con_select", "con_fetch"}

\* C14: at most one refresher goroutine is alive, none once it has returned,
\* and a panic replaces it by exactly one; so at most one Retriever call is in
\* progress.  A refresh call begins only when none is in progress, and the
\* token is written only by the one refresh call in progress.
C14_SingleWriter ==
    /\ [](loops \in {0, 1})
    /\ [](loops = 0 <=> pc = "stopped")
    /\ [](RetrieverCalls <= 1)
    /\ [][loops' <= loops]_vars
    /\ [][~InRefresh /\ InRefresh' => pc \in {"start", "select", "parked"}]_vars
    /\ [][InRefresh /\ InRefresh' =>
            force' = force /\ (pc' = "lock_wait" => pc = "lock_wait")]_vars
    /\ [][token' # token => InRefresh /\ loops = 1]_vars

\* The refresher restarted after a panic is inside a Retriever call, a token
\* fetched by the goroutine it replaced being cached.
C14_Witness ==
    /\ panics = 1
    /\ loops = 1
    /\ pc = "imm_fetch"
    /\ token # Empty

\* A Refresh() call hands its request to refresher in this step.
AcceptStep == pc = "parked" /\ pc' = "lock_wait"

\* A Refresh() call takes its default case in this step.
DropStep == lastReq' = "dropped" /\ lastReq # "dropped"

\* A force request has been accepted and the forced refresh it asked for has
\* not returned yet.
ForcePending == lastReq = "accepted" /\ force /\ InRefresh

\* C15 as stated: with done open, a Refresh() request is dropped only when
\* another force request is pending.
C15_Original ==
    [][DropStep /\ ~closed => ForcePending]_vars

\* C15 amended: m.force holds no request.  A Refresh() request is accepted
\* exactly when refresher is parked in its select with nothing else ready, and
\* the forced refresh it asks for begins in the same step; in every other
\* state (refresher inside a refresh, at its select but not parked yet, woken
\* by the timer or by done, stopped) the request is dropped and has no effect.
\* The select of refresher starts a forced refresh only for a request accepted
\* in that step, so a request is answered by exactly one forced refresh or by
\* none.
C15_ForceHandoff ==
    /\ [][DropStep =>
            /\ ~ForceReceiverWaiting
            /\ UNCHANGED <<token, mu, pc, force, timer, called, fails, ret>>]_vars
    /\ [][AcceptStep =>
            /\ ForceReceiverWaiting
            /\ lastReq' = "accepted"
            /\ force' /\ called' = 0 /\ mu'.w = "waiting"
            /\ UNCHANGED <<token, timer>>]_vars
    /\ [][lastReq' = "accepted" /\ lastReq # "accepted" => AcceptStep]_vars
    /\ [][(pc \in {"select", "parked"}) /\ pc' = "lock_wait" => AcceptStep]_vars

\* A request was accepted over a cached token and its forced refresh waits for
\* a GetToken caller to leave the lock.
C15_Witness ==
    /\ lastReq = "accepted"
    /\ pc = "lock_wait"
    /\ force
    /\ token # Empty
    /\ mu.r # {}

\* A Refresh() call returns in this step.
RefreshStep == lastReq' \in {"accepted", "dropped"} /\ lastReq' # lastReq

\* refresher is not waiting in its select: it is starting, inside a refresh,
\* between a refresh and its select, or stopped.
LoopBusy == InRefresh \/ pc \in {"start", "returned", "drain", "select", "stopped"}

\* C16: Refresh() can return in every state.  While refresher is inside a
\* refresh, or anywhere but parked in its select, the call takes its default
\* case and changes nothing of the refresh in progress, the token, the lock or
\* the timer; and no request is kept for later: when the refresh in progress
\* has returned, the select starts a forced refresh only for a request handed
\* over then.
C16_RefreshNoOp ==
    /\ [](ENABLED Refresh)
    /\ [](LoopBusy => ~ForceReceiverWaiting)
    /\ [][RefreshStep /\ LoopBusy =>
            /\ lastReq' = "dropped"
            /\ UNCHANGED <<token, mu, timer, pc, force, ltoken, lexp, lerr, ticked,
                           ret, called, fails, nFetch, panics, stale, rd, loops>>]_vars
    /\ [][(pc \in {"select", "parked"}) /\ pc' # pc =>
            \/ pc' = "parked"
            \/ pc' = "stopped"
            \/ pc' = "exp_select" /\ ~force' /\ timer.st = "fired"
            \/ pc' = "lock_wait" /\ lastReq' = "accepted" /\ ForceReceiverWaiting]_vars

\* A Refresh() call was dropped and refresher is parked in its select again,
\* the startup refresh being the only one that ever ran to its end.
C16_Witness ==
    /\ lastReq = "dropped"
    /\ pc = "parked"
    /\ nFetch = 1
    /\ panics = 0
    /\ timer.st = "armed"

\* C17: a force request taken by the select starts one forced refresh, which
\* with a Retriever that succeeds at once makes one Retriever call.  When that
\* refresh has returned success, refresher goes back to its select with the
\* timer armed with the delay just returned: directly when the timer had not
\* fired, and through the drain of the pending firing when it had; it never
\* starts another refresh on the way, and no firing older than the forced
\* refresh is left to start a timed one.
C17_ForceThenRearm ==
    /\ [][AcceptStep => force' /\ called' = 0 /\ timer' = timer /\ timer.st = "armed"]_vars
    /\ [](pc = "returned" /\ force /\ ret.err = Nil /\ fails = 0 => called = 1)
    /\ [][pc = "returned" /\ force /\ ret.err = Nil /\ pc' # pc =>
            \/ /\ timer.st \in {"none", "armed"}
               /\ pc' = "select"
               /\ timer' = TimerArmed(ret.delay)
            \/ /\ timer.st = "fired"
               /\ pc' = "drain"
               /\ timer' = timer /\ ret' = ret]_vars
    /\ [](pc = "drain" => timer.st = "fired" /\ ret.err = Nil)
    /\ [][pc = "drain" /\ pc' # pc =>
            pc' = "select" /\ timer' = TimerArmed(ret.delay)]_vars
    /\ [][(pc \in {"returned", "drain"}) /\ pc' = "select" =>
            timer'.st = "armed" /\ nFetch' = nFetch /\ token' = token]_vars

\* The forced refresh asked for by Refresh() has returned, the second fetch
\* made, and refresher is about to drain the firing that came in meanwhile.
C17_Witness ==
    /\ pc = "drain"
    /\ timer.st = "fired"
    /\ lastReq = "accepted"
    /\ nFetch = 2
    /\ panics = 0

\* An unforced refresh is in progress or has just returned.
TimedCall == ~force /\ (InRefresh \/ pc = "returned")

\* C18: the select starts an unforced refresh only by consuming a firing of
\* the timer, and one firing starts one refresh: the timer stays spent until
\* that refresh has returned.  When it returns success the token is the one
\* just fetched, one Retriever call was made if none failed, and the timer is
\* rearmed with the delay just returned; when it returns the shutdown failure
\* refresher returns without rearming.
C18_TimedRefresh ==
    /\ [][~InRefresh /\ InRefresh' /\ ~force' =>
            /\ pc \in {"select", "parked"}
            /\ timer.st = "fired" /\ timer'.st = "idle"
            /\ pc' = "exp_select" /\ called' = 0
            /\ token' = token /\ mu' = mu]_vars
    /\ [](TimedCall => timer.st = "idle")
    /\ [](pc = "returned" /\ ~force /\ ret.err = Nil =>
            /\ token = Tok(nFetch) /\ token = ltoken
            /\ ret.delay = lexp - refreshBuffer
            /\ (fails = 0 => called = 1))
    /\ [][pc = "returned" /\ ~force /\ pc' # pc =>
            IF ret.err = ErrShutdown
               THEN pc' = "stopped" /\ timer'.st = "idle"
               ELSE pc' = "select" /\ timer' = TimerArmed(ret.delay)]_vars

\* A timed refresh fetched the second token at its first call and refresher is
\* back at its select, the timer rearmed; no window was ever used up.
C18_Witness ==
    /\ pc = "select"
    /\ nFetch = 2
    /\ token = Tok(2)
    /\ timer.st = "armed"
    /\ lastReq = "none"
    /\ panics = 0
    /\ stale = Empty

\* refresher has not created its timer yet: it has not got past its startup
\* refresh.
Starting == timer.st = "none"

\* C19: refresher begins with a forced refresh, made before the timer exists:
\* until that refresh has returned success refresher is never at its select,
\* so it handles no timer firing and no force request.  If the startup refresh
\* returns the shutdown failure refresher returns at once, no timer is ever
\* created, and the token is and stays "".
C19_StartupRefresh ==
    /\ [](pc = "start" => Starting)
    /\ [][pc = "start" /\ pc' # pc =>
            pc' = "lock_wait" /\ force' /\ called' = 0 /\ timer' = NoTimer]_vars
    /\ [](Starting => pc \in {"start", "returned", "stopped"} \/ (force /\ InRefresh))
    /\ [][Starting /\ ~Starting' =>
            pc = "returned" /\ force /\ ret.err = Nil /\ pc' = "select"]_vars
    /\ [][Starting /\ pc = "returned" /\ ret.err = ErrShutdown /\ pc' # pc =>
            pc' = "stopped" /\ Starting' /\ token = Empty /\ token' = Empty]_vars
    /\ [](Starting /\ pc = "stopped" => token = Empty /\ closed)
    /\ [][pc = "stopped" => pc' = "stopped" /\ timer' = timer /\ token' = token]_vars

\* The startup refresh gave up on shutdown after failed Retriever calls:
\* refresher has returned, no timer was created and no token ever fetched.
C19_Witness ==
    /\ pc = "stopped"
    /\ Starting
    /\ closed
    /\ token = Empty
    /\ nFetch = 0
    /\ panics = 0

\* A panic is recovered in this step.
PanicStep == panics' # panics

\* C20: a panic raised by the Retriever is recovered and refresher starts
\* again from its beginning, as one goroutine, with no timer.  The step leaves
\* the token, done and the GetToken callers as they were and the exclusive
\* lock free, so the token cached at the fault can be read until the restarted
\* refresher takes the lock for its startup refresh; that refresh is forced,
\* and when its first Retriever call succeeds it has made one call and the
\* fetched token is stored.
C20_PanicRestart ==
    /\ [][PanicStep =>
            /\ panics' = panics + 1
            /\ pc \in {"imm_fetch", "exp_fetch", "con_fetch"}
            /\ pc' = "start"
            /\ loops' = 1
            /\ timer' = NoTimer
            /\ mu'.w = "none" /\ mu'.r = mu.r
            /\ UNCHANGED <<token, doneCloses, rd, nFetch>>]_vars
    /\ [](pc = "start" => mu.w = "none" /\ ReadValues = {token})
    /\ [](pc = "start" /\ token # Empty => token = Tok(nFetch))
    /\ [][pc = "start" /\ panics > 0 /\ pc' # pc =>
            pc' = "lock_wait" /\ force' /\ called' = 0 /\ token' = token]_vars
    /\ [](Starting /\ panics > 0 /\ pc = "returned" /\ ret.err = Nil /\ fails = 0 =>
            called = 1 /\ nFetch >= 1 /\ token = Tok(nFetch) /\ token = ltoken)

\* After a panic inside a forced refresh over a cached token, a caller that
\* had been kept waiting by that refresh holds the read lock and the token is
\* still cached; refresher is about to start again.
C20_Witness ==
    /\ pc = "start"
    /\ panics = 1
    /\ token # Empty
    /\ \E r \in Readers : rd[r].pc = "locked" /\ rd[r].blk = "forced"

\* C21 as stated: as long as Close() has not been called, a GetToken call that
\* returns does so with a non-empty token and a nil error.
C21_ErrorOnlyOnShutdown ==
    [][\A r \in Readers :
        Returns(r) /\ ~closed => rd'[r].tok # Empty /\ rd'[r].err = Nil]_vars

C23_WritesUnderLock ==
    /\ [][token' # token => HoldsLock /\ mu.r = {}]_vars
    /\ [](pc = "racy_write" => HoldsLock)

\* C24: a refresh call acquires the exclusive lock at most once and never
\* returns holding it.  The lock is taken only at the forced entry or at the
\* unforced expire-and-lock point, never both; once held it is given up only
\* as the call ends (return or fault), and it is requested only while not
\* held.  After the return, and until the next refresh begins, the lock is
\* free, so a waiting GetToken call can take the read lock.
C24_LockOncePerRefresh ==
    /\ [][~HoldsLock /\ HoldsLock' =>
            \/ pc = "lock_wait" /\ force
            \/ pc = "expire_wait" /\ ~force]_vars
    /\ [][HoldsLock /\ ~HoldsLock' => pc' \in {"returned", "start"}]_vars
    /\ [][mu.w # "waiting" /\ mu'.w = "waiting" =>
            mu.w = "none" /\ pc' \in {"lock_wait", "expire_wait"}]_vars
    /\ [](pc = "expire_wait" => ~force)
    /\ [](pc \in {"returned", "drain", "select", "parked", "stopped"} =>
            mu.w = "none")
    /\ [](\A r \in Readers :
            pc \in {"returned", "drain", "select", "parked", "stopped"}
                /\ rd[r].pc = "calling" => ENABLED RLock(r))

\* An unforced refresh has just returned successfully from its constant
\* phase, after the expired token had been cleared under the lock, while a
\* GetToken call that began during the outage is still waiting to read.
C24_Witness ==
    /\ pc = "returned"
    /\ ~force
    /\ ret.err = Nil
    /\ fails >= 2
    /\ token = Tok(nFetch)
    /\ \E r \in Readers : rd[r].pc = "calling" /\ rd[r].blk = "outage"

\* A tick of either backoff phase is taken: refreshInner goes from its select
\* to the Retriever call.
PhaseTick ==
    \/ pc = "exp_select" /\ pc' = "exp_fetch"
    \/ pc = "con_select" /\ pc' = "con_fetch"

\* The Retriever call of a backoff phase fails and the phase waits for its
\* next tick.
PhaseFailure ==
    \/ pc = "exp_fetch" /\ pc' = "exp_select"
    \/ pc = "con_fetch" /\ pc' = "con_select"

\* The Retriever call of a backoff phase succeeds.
PhaseSuccess == pc \in {"exp_fetch", "con_fetch"} /\ nFetch' # nFetch

\* The exponential schedule has closed and the exponential phase is left
\* without a token.
PhaseExhausted == pc = "exp_select" /\ pc' \in {"con_select", "expire_wait"}

\* C25: one backoff phase makes exactly one Retriever attempt per tick; a
\* failure records the Retriever's error and waits for the next tick; the
\* first success ends the phase at once with the fetched token, its validity
\* and a nil error, so k failures followed by a success make k+1 calls; the
\* exponential schedule closes only after at least one failed attempt and then
\* the phase yields the empty token, zero validity and the Retriever's last
\* error; a phase ends with a nil error only through a successful fetch.
C25_OneAttemptPerTick ==
    /\ [][PhaseTick => called' = Inc(called) /\ fails' = fails
                       /\ nFetch' = nFetch /\ token' = token]_vars
    /\ [][PhaseFailure => fails' = Inc(fails) /\ called' = called
                          /\ lerr' = RetrieverErr /\ nFetch' = nFetch
                          /\ token' = token]_vars
    /\ [][PhaseSuccess => /\ pc' \in {"returned", "racy_write"}
                          /\ ltoken' = Tok(nFetch')
                          /\ lexp' \in Validities
                          /\ lerr' = Nil
                          /\ called' = called]_vars
    /\ [][PhaseExhausted => /\ ExpTickerClosed
                            /\ lerr = RetrieverErr
                            /\ fails >= 1
                            /\ ltoken' = Empty
                            /\ lexp' = 0
                            /\ called' = called
                            /\ nFetch' = nFetch]_vars
    /\ [][(pc \in {"exp_select", "con_select"}) =>
            pc' \in {pc, "exp_fetch", "con_fetch", "con_select", "expire_wait",
                     "returned"}]_vars
    /\ [](pc \in {"exp_fetch", "con_fetch"} /\ called < MaxCount =>
            called = fails + 1)
    /\ [](pc \in {"exp_select", "con_select"} /\ called < MaxCount =>
            called = fails)
    /\ [](pc = "exp_select" /\ ExpTickerClosed => lerr = RetrieverErr)
    /\ [][(pc \in {"exp_select", "exp_fetch", "con_select", "con_fetch"})
            /\ pc' \in {"returned", "racy_write"} /\ lerr' = Nil =>
                PhaseSuccess]_vars

\* The third Retriever call of an unforced refresh is in progress in the
\* constant phase, after one failure in the exponential phase, which then
\* closed, and one in the constant phase.
C25_Witness ==
    /\ pc = "con_fetch"
    /\ ~force
    /\ fails = 2
    /\ called = 3

\* C26 as stated: the exponential phase runs with maximum elapsed time
\* refreshBuffer - Margin and, for every refreshBuffer, comes to an end under
\* Retriever failure: once an attempt of the phase has failed, its schedule
\* can close; with a refreshBuffer below the margin it closes after exactly
\* one attempt.
C26_ExpPhaseEnds ==
    /\ MaxElapsedTime = refreshBuffer - Margin
    /\ (pc = "exp_select" /\ ticked => ENABLED ExpExhausted)
    /\ (pc = "exp_select" /\ ticked /\ refreshBuffer < Margin => ~ENABLED ExpTick)

\* The immediate attempt of a forced refresh completes without a fault.
ImmediateDone == pc = "imm_fetch" /\ pc' \in {"exp_select", "returned"}

\* C27: the immediate attempt of a forced refresh stores the token it got
\* whatever the outcome: the fetched token on success, "" on failure (the
\* Retriever returns the empty token with its error), even over a token that
\* was still valid.  While the forced refresh then retries, the cached token
\* is "" under the lock; it becomes non-empty again only through a successful
\* fetch, and a forced refresh that ends in shutdown leaves the cache empty.
C27_ForcedStoresFirst ==
    /\ [][ImmediateDone => token' = ltoken' /\ HoldsLock /\ force]_vars
    /\ [][ImmediateDone /\ pc' = "exp_select" =>
            token' = Empty /\ nFetch' = nFetch /\ HoldsLock']_vars
    /\ [][ImmediateDone /\ pc' = "returned" =>
            token' = Tok(nFetch') /\ nFetch' = nFetch + 1 /\ ret'.err = Nil]_vars
    /\ [](ForcedRetrying => token = Empty /\ HoldsLock)
    /\ [][ForcedRetrying /\ token' # Empty =>
            nFetch' = nFetch + 1 /\ ret'.err = Nil /\ pc' = "returned"]_vars
    /\ [][ShutdownReturn /\ force => token' = Empty /\ ForcedRetrying]_vars

\* A forced refresh requested through Refresh() while a valid token was
\* cached has ended in shutdown, and the cache is empty.
C27_Witness ==
    /\ pc = "returned"
    /\ force
    /\ ret.err = ErrShutdown
    /\ token = Empty
    /\ nFetch >= 1
    /\ panics = 0

\* The loop is at, or blocked in, its three-way wait.
AtSelect == pc \in {"select", "parked"}

\* C28: the loop never blocks on the timer drain of the force path.  A force
\* request is received only with the timer armed; during the forced refresh
\* the timer is armed or has an unconsumed firing, never a consumed one, so
\* whenever the drain is reached the firing is in the channel and the receive
\* can complete; a refresh that did not end in shutdown always leads, directly
\* or through the drain, back to the three-way wait, where exactly one timer
\* is armed or one firing is pending.
C28_DrainNeverBlocks ==
    /\ [](pc = "drain" => ENABLED DrainTimer)
    /\ [][AcceptStep => timer.st = "armed"]_vars
    /\ [](force /\ (InRefresh \/ pc \in {"returned", "drain"}) =>
            timer.st \in {"none", "armed", "fired"})
    /\ [](AtSelect => timer.st \in {"armed", "fired"})
    /\ [](pc = "returned" /\ ret.err # ErrShutdown => ENABLED AfterRefresh)
    /\ [][(pc \in {"returned", "drain"}) /\ ret.err # ErrShutdown /\ pc' # pc =>
            \/ pc' = "select" /\ timer'.st = "armed"
            \/ pc' = "drain" /\ timer'.st = "fired"]_vars

\* The forced refresh returned a negative delay (the token's validity is
\* shorter than refreshBuffer) and the timer fired during it: the loop is at
\* the drain with the firing pending, and the timer it re-arms fires at once.
C28_Witness ==
    /\ pc = "drain"
    /\ timer.st = "fired"
    /\ ret.delay < 0
    /\ ~closed

\* The steps by which the loop comes to hold the exclusive lock for a forced
\* refresh: entering refresh(true) and the grant of m.mu.Lock().
LockProgress == RefresherStart \/ LockAcquire

\* The scheduling the lock hand-over relies on: the refresher goroutine,
\* once started or waiting in Lock(), eventually runs when it can, and a
\* GetToken call that holds the read lock eventually releases it.
LockFairSpec ==
    /\ Spec
    /\ WF_vars(LockProgress)
    /\ WF_vars(CallerProgress)

\* The restarted loop is about to begin its startup forced refresh.
Restarted == pc = "start" /\ panics > 0

\* C29: a fault raised inside refresh while the exclusive lock is held gives
\* the lock up as the call unwinds.  The lock is only ever held, or waited
\* for, by the refresh in progress, never by a task that has ended; at the
\* restart the lock is free, so a waiting GetToken call can take the read
\* lock, and the restarted loop's startup forced refresh always comes to hold
\* the lock.
C29_FaultReleasesLock ==
    /\ [][PanicStep /\ HoldsLock => ~HoldsLock' /\ mu'.r = {}]_vars
    /\ [](HoldsLock =>
            pc \in {"imm_fetch", "exp_select", "exp_fetch", "con_select",
                    "con_fetch"})
    /\ [](mu.w = "waiting" => pc \in {"lock_wait", "expire_wait"})
    /\ [](\A r \in Readers :
            Restarted /\ rd[r].pc = "calling" => ENABLED RLock(r))
    /\ Restarted ~> (pc = "imm_fetch" /\ HoldsLock /\ force)

\* The loop has been restarted after a fault that was raised under the lock
\* (the cache had been emptied by the faulted refresh), the lock is free, and
\* a GetToken call is waiting to read.
C29_Witness ==
    /\ Restarted
    /\ token = Empty
    /\ nFetch >= 1
    /\ mu.w = "none"
    /\ \E r \in Readers : rd[r].pc = "calling"

====
